---- MODULE Spec2Model ----
(***************************************************************************)
(* A model of sigmatch.SignatureMatcher (src/sigmatch/matcher.py).         *)
(*                                                                         *)
(* A string is a sequence of one-character strings, so that               *)
(* str.isidentifier() and the comparisons with '.', '*' and '**' are       *)
(* computed from the characters.  A candidate is the value handed to       *)
(* match(): either a value that is not callable, or a callable together    *)
(* with the parameter list inspect.Signature.from_callable() yields.       *)
(***************************************************************************)
EXTENDS Integers, Sequences, FiniteSets, TLC

\* self: the SignatureMatcher object; pc, function, raise_exception, outcome:
\* the call of match() in progress or just finished; first: the first call
\* made on the matcher and what it gave, calls: the number of calls made
\* (history).
VARIABLES self, pc, function, raise_exception, outcome, first, calls

vars == <<self, pc, function, raise_exception, outcome, first, calls>>

----------------------------------------------------------------------------
(* Bounds of the model. *)

\* longest pattern handed to SignatureMatcher(*args)
MaxTokens == 2
\* longest parameter list of a candidate
MaxParams == 2
\* most calls of match() counted on one matcher
MaxCalls == 2

----------------------------------------------------------------------------
(* Strings. *)

DOT == <<".">>
STAR == <<"*">>
DOUBLESTAR == <<"*", "*">>

Letters == {"a", "b", "c", "d", "e", "g", "k", "r", "s", "w", "_"}
Digits == {"2"}

\* isidentifier without the test for the empty string and for the first
\* character
isidentifier_any_word(x) ==
    \A i \in 1..Len(x) : x[i] \in Letters \cup Digits

\* str.isidentifier(): not empty, starts with a letter or an underscore,
\* continues with letters, digits and underscores.
isidentifier(x) ==
    /\ Len(x) > 0
    /\ x[1] \in Letters
    /\ \A i \in 1..Len(x) : x[i] \in Letters \cup Digits

\* The tokens patterns are made of: the three special tokens, identifiers,
\* and strings that are none of these ('', '***', '2c', '..').
Tokens ==
    { DOT, STAR, DOUBLESTAR, <<"c">>, <<"c", "2">>,
      <<>>, <<"*", "*", "*">>, <<"2", "c">> }

SeqsUpTo(S, n) == UNION { [1..k -> S] : k \in 0..n }

Patterns == SeqsUpTo(Tokens, MaxTokens)

----------------------------------------------------------------------------
(* inspect.Parameter and the parameter lists of callables. *)

POSITIONAL_ONLY == "POSITIONAL_ONLY"
POSITIONAL_OR_KEYWORD == "POSITIONAL_OR_KEYWORD"
VAR_POSITIONAL == "VAR_POSITIONAL"
KEYWORD_ONLY == "KEYWORD_ONLY"
VAR_KEYWORD == "VAR_KEYWORD"

KindRank(k) ==
    CASE k = POSITIONAL_ONLY -> 0
      [] k = POSITIONAL_OR_KEYWORD -> 1
      [] k = VAR_POSITIONAL -> 2
      [] k = KEYWORD_ONLY -> 3
      [] k = VAR_KEYWORD -> 4

ParamNames == { <<"a">>, <<"c">>, <<"c", "2">> }

\* default is TRUE when the parameter has a default value
\* (parameter.default != parameter.empty).
Parameter ==
    { p \in [name : ParamNames,
             kind : {POSITIONAL_ONLY, POSITIONAL_OR_KEYWORD, VAR_POSITIONAL,
                     KEYWORD_ONLY, VAR_KEYWORD},
             default : BOOLEAN] :
        p.kind \in {VAR_POSITIONAL, VAR_KEYWORD} => ~p.default }

\* The parameter lists a Python callable can have: kinds in the order
\* positional-only, positional-or-keyword, *args, keyword-only, **kwargs;
\* one *args and one **kwargs at most; no positional parameter without a
\* default after one with a default; names pairwise distinct.
ValidParameters(ps) ==
    /\ \A i, j \in 1..Len(ps) :
         i < j =>
           /\ ps[i].name # ps[j].name
           /\ KindRank(ps[i].kind) <= KindRank(ps[j].kind)
           /\ ps[i].kind \in {VAR_POSITIONAL, VAR_KEYWORD} => ps[i].kind # ps[j].kind
           /\ ( /\ KindRank(ps[i].kind) <= 1
                /\ KindRank(ps[j].kind) <= 1
                /\ ps[i].default ) => ps[j].default

Signatures == { ps \in SeqsUpTo(Parameter, MaxParams) : ValidParameters(ps) }

\* The values match() is called with.
Callables == { [callable |-> TRUE, parameters |-> ps] : ps \in Signatures }
NonCallables == { [callable |-> FALSE, parameters |-> <<>>] }
Candidates == Callables \cup NonCallables

----------------------------------------------------------------------------
(* The functions of src/tests/test_matcher.py. *)

Req(n) == [name |-> n, kind |-> POSITIONAL_OR_KEYWORD, default |-> FALSE]
Dflt(n) == [name |-> n, kind |-> POSITIONAL_OR_KEYWORD, default |-> TRUE]
Args(n) == [name |-> n, kind |-> VAR_POSITIONAL, default |-> FALSE]
Kwargs(n) == [name |-> n, kind |-> VAR_KEYWORD, default |-> FALSE]
Func(ps) == [callable |-> TRUE, parameters |-> ps]

function_1 == Func(<< >>)
function_2 == Func(<< Req(<<"a", "r", "g">>) >>)
function_3 == Func(<< Kwargs(<<"k", "w", "a", "r", "g", "s">>) >>)
function_4 == Func(<< Args(<<"a", "r", "g", "s">>), Kwargs(<<"k", "w", "a", "r", "g", "s">>) >>)
function_5 == Func(<< Req(<<"a">>), Req(<<"b">>) >>)
function_6 == Func(<< Req(<<"a">>), Req(<<"b">>), Req(<<"c">>) >>)
function_7 == Func(<< Req(<<"a">>), Req(<<"b">>), Dflt(<<"c">>) >>)
function_8 == Func(<< Req(<<"a">>), Req(<<"b">>), Dflt(<<"c">>), Args(<<"d">>) >>)
function_9 == Func(<< Req(<<"a">>), Req(<<"b">>), Dflt(<<"c">>), Args(<<"d">>), Kwargs(<<"e">>) >>)
function_10 ==
    Func(<< Req(<<"a">>), Req(<<"b">>), Dflt(<<"c">>), Dflt(<<"c", "2">>),
            Args(<<"d">>), Kwargs(<<"e">>) >>)
function_11 ==
    Func(<< Req(<<"a">>), Req(<<"b">>), Req(<<"b", "2">>), Dflt(<<"c">>),
            Dflt(<<"c", "2">>), Args(<<"d">>), Kwargs(<<"e">>) >>)
function_12 == Func(<< Dflt(<<"c">>), Dflt(<<"c", "2">>) >>)

TestFunctions ==
    { function_1, function_2, function_3, function_4, function_5, function_6,
      function_7, function_8, function_9, function_10, function_11, function_12 }

----------------------------------------------------------------------------
(* SignatureMatcher.__init__ *)

Range(s) == { s[i] : i \in 1..Len(s) }

\* list(set(xs)): the distinct elements of xs, in an order the set decides.
ListsOfSet(S) ==
    { l \in [1..Cardinality(S) -> S] : Range(l) = S }

\* __init__ counting the distinct names instead of the named tokens
SignatureMatcher_distinct_count(args) ==
    { [expected_signature |-> args,
       is_args |-> (STAR \in Range(args)),
       is_kwargs |-> (DOUBLESTAR \in Range(args)),
       number_of_position_args |-> Len(SelectSeq(args, LAMBDA x : x = DOT)),
       number_of_named_args |-> Cardinality(Range(SelectSeq(args, isidentifier))),
       names_of_named_args |-> names] :
      names \in ListsOfSet(Range(SelectSeq(args, isidentifier))) }

\* The objects SignatureMatcher(*args) can construct.
SignatureMatcher(args) ==
    { [expected_signature |-> args,
       is_args |-> (STAR \in Range(args)),
       is_kwargs |-> (DOUBLESTAR \in Range(args)),
       number_of_position_args |-> Len(SelectSeq(args, LAMBDA x : x = DOT)),
       number_of_named_args |-> Len(SelectSeq(args, isidentifier)),
       names_of_named_args |-> names] :
      names \in ListsOfSet(Range(SelectSeq(args, isidentifier))) }

----------------------------------------------------------------------------
(* The five predicates. *)

\* bool as the int that `result *= ...` multiplies with
AsInt(b) == IF b THEN 1 ELSE 0

IsVarPositional(parameter) == parameter.kind = VAR_POSITIONAL
IsVarKeyword(parameter) == parameter.kind = VAR_KEYWORD
\* the filter of prove_number_of_position_args without the test of the kind
\* against the two positional kinds: a keyword-only parameter counts too
IsPositionalWithoutDefault_any_kind(parameter) ==
    /\ parameter.kind \notin {VAR_POSITIONAL, VAR_KEYWORD}
    /\ ~parameter.default

IsPositionalWithoutDefault(parameter) ==
    /\ parameter.kind = POSITIONAL_ONLY \/ parameter.kind = POSITIONAL_OR_KEYWORD
    /\ ~parameter.default
IsNamedWithDefault(parameter) ==
    /\ parameter.kind = KEYWORD_ONLY \/ parameter.kind = POSITIONAL_OR_KEYWORD
    /\ parameter.default

\* prove_is_args looking for the wrong kind
prove_is_args_wrong_kind(slf, parameters) ==
    slf.is_args = (Len(SelectSeq(parameters, IsVarKeyword)) # 0)

prove_is_args(slf, parameters) ==
    slf.is_args = (Len(SelectSeq(parameters, IsVarPositional)) # 0)

prove_is_kwargs(slf, parameters) ==
    slf.is_kwargs = (Len(SelectSeq(parameters, IsVarKeyword)) # 0)

\* prove_number_of_position_args without the test of the default
prove_number_of_position_args_any_default(slf, parameters) ==
    slf.number_of_position_args =
        Len(SelectSeq(parameters,
                      LAMBDA parameter : \/ parameter.kind = POSITIONAL_ONLY
                                         \/ parameter.kind = POSITIONAL_OR_KEYWORD))

prove_number_of_position_args(slf, parameters) ==
    slf.number_of_position_args = Len(SelectSeq(parameters, IsPositionalWithoutDefault))

\* prove_number_of_named_args with <= for ==
prove_number_of_named_args_at_least(slf, parameters) ==
    slf.number_of_named_args <= Len(SelectSeq(parameters, IsNamedWithDefault))

prove_number_of_named_args(slf, parameters) ==
    slf.number_of_named_args = Len(SelectSeq(parameters, IsNamedWithDefault))

RECURSIVE NamesProduct(_, _, _)
\* the loop `for name in self.names_of_named_args: result *= (name in ...)`
NamesProduct(names, names_of_parameters, result) ==
    IF names = << >> THEN result
    ELSE NamesProduct(Tail(names), names_of_parameters,
                      result * AsInt(\E i \in 1..Len(names_of_parameters) :
                                      names_of_parameters[i] = Head(names)))

\* prove_names_of_named_args comparing the two collections of names
prove_names_of_named_args_same_names(slf, parameters) ==
    LET named == SelectSeq(parameters, IsNamedWithDefault)
    IN  Range(slf.names_of_named_args) = { named[i].name : i \in 1..Len(named) }

prove_names_of_named_args(slf, parameters) ==
    LET named == SelectSeq(parameters, IsNamedWithDefault)
        names_of_parameters == [i \in 1..Len(named) |-> named[i].name]
    IN  NamesProduct(slf.names_of_named_args, names_of_parameters, 1) # 0

----------------------------------------------------------------------------
(* SignatureMatcher.match *)

Returned(value) == [kind |-> "return", value |-> value]
Raised(error) == [kind |-> "raise", error |-> error]
NoOutcome == [kind |-> "none"]
NoFunction == [callable |-> FALSE, parameters |-> << >>]

\* The product of the five predicates, as match() computes it.
Product(slf, parameters) ==
    1 * AsInt(prove_is_args(slf, parameters))
      * AsInt(prove_is_kwargs(slf, parameters))
      * AsInt(prove_number_of_position_args(slf, parameters))
      * AsInt(prove_number_of_named_args(slf, parameters))
      * AsInt(prove_names_of_named_args(slf, parameters))

\* match() raising SignatureMismatchError for a value that is not callable
match_one_error_kind(slf, func, raise_exc) ==
    IF ~func.callable
    THEN [self |-> slf,
          outcome |-> IF raise_exc THEN Raised("SignatureMismatchError")
                                   ELSE Returned(FALSE)]
    ELSE LET result == Product(slf, func.parameters) # 0
         IN  [self |-> slf,
              outcome |-> IF ~result /\ raise_exc
                          THEN Raised("SignatureMismatchError")
                          ELSE Returned(result)]

\* match() raising on a mismatch whatever the flag
match_always_raising(slf, func, raise_exc) ==
    IF ~func.callable
    THEN [self |-> slf,
          outcome |-> IF raise_exc THEN Raised("ValueError") ELSE Returned(FALSE)]
    ELSE LET result == Product(slf, func.parameters) # 0
         IN  [self |-> slf,
              outcome |-> IF ~result
                          THEN Raised("SignatureMismatchError")
                          ELSE Returned(result)]

\* match() using up self.names_of_named_args while it checks the names
match_consuming_names(slf, func, raise_exc) ==
    IF ~func.callable
    THEN [self |-> slf,
          outcome |-> IF raise_exc THEN Raised("ValueError") ELSE Returned(FALSE)]
    ELSE LET result == Product(slf, func.parameters) # 0
         IN  [self |-> [slf EXCEPT !.names_of_named_args = << >>],
              outcome |-> IF ~result /\ raise_exc
                          THEN Raised("SignatureMismatchError")
                          ELSE Returned(result)]

\* What a call of match() leaves: the object and what the caller gets.
match(slf, func, raise_exc) ==
    IF ~func.callable
    THEN [self |-> slf,
          outcome |-> IF raise_exc THEN Raised("ValueError") ELSE Returned(FALSE)]
    ELSE LET parameters == func.parameters
             result == Product(slf, parameters) # 0
         IN  [self |-> slf,
              outcome |-> IF ~result /\ raise_exc
                          THEN Raised("SignatureMismatchError")
                          ELSE Returned(result)]

----------------------------------------------------------------------------
(* The state machine: one matcher, called any number of times. *)

Init ==
    /\ \E args \in Patterns : self \in SignatureMatcher(args)
    /\ pc = "idle"
    /\ function = NoFunction
    /\ raise_exception = FALSE
    /\ outcome = NoOutcome
    /\ first = NoOutcome
    /\ calls = 0

\* A call self.match(func, raise_exc), from entry to return or raise.
Match(func, raise_exc) ==
    /\ pc = "idle"
    /\ pc' = "called"
    /\ function' = func
    /\ raise_exception' = raise_exc
    /\ LET r == match(self, func, raise_exc)
       IN  self' = r.self /\ outcome' = r.outcome

\* The caller has taken the result (or caught the exception) of the call.
Resume ==
    /\ pc = "called"
    /\ pc' = "idle"
    /\ function' = NoFunction
    /\ raise_exception' = FALSE
    /\ outcome' = NoOutcome
    /\ UNCHANGED self

Call ==
    /\ pc = "idle"
    /\ \E func \in Candidates, raise_exc \in BOOLEAN : Match(func, raise_exc)
    /\ UNCHANGED <<first, calls>>

Next == Call \/ (Resume /\ UNCHANGED <<first, calls>>)

Spec == Init /\ [][Next]_vars

\* The same matcher called with the functions of the tests and with a value
\* that is not callable, remembering the first call.
CallRemembered ==
    /\ pc = "idle"
    /\ calls < MaxCalls
    /\ calls' = calls + 1
    /\ \E func \in TestFunctions \cup NonCallables, raise_exc \in BOOLEAN :
        /\ Match(func, raise_exc)
        /\ first' = IF first = NoOutcome
                    THEN [function |-> func, raise_exception |-> raise_exc,
                          outcome |-> match(self, func, raise_exc).outcome]
                    ELSE first

NextReuse == CallRemembered \/ (Resume /\ UNCHANGED <<first, calls>>)

SpecReuse == Init /\ [][NextReuse]_vars

TypeOK ==
    /\ pc \in {"idle", "called"}
    /\ raise_exception \in BOOLEAN
    /\ outcome.kind \in {"none", "return", "raise"}
    /\ calls \in 0..MaxCalls

----------------------------------------------------------------------------
(* Vocabulary of the properties, stated on the pattern and on the          *)
(* parameter list, not on the fields match() reads.                        *)

tokens == self.expected_signature
parameters_of_call == function.parameters

\* the named tokens and the malformed tokens among Tokens
NameTokens == { <<"c">>, <<"c", "2">> }
MalformedTokens == { << >>, <<"*", "*", "*">>, <<"2", "c">> }

Occurrences(args, S) == Cardinality({ i \in 1..Len(args) : args[i] \in S })
positionalCount == Occurrences(tokens, {DOT})
namedCount == Occurrences(tokens, NameTokens)
namedNames == Range(tokens) \cap NameTokens

RequiredPositional(ps) ==
    { i \in 1..Len(ps) : /\ ps[i].kind \in {POSITIONAL_ONLY, POSITIONAL_OR_KEYWORD}
                         /\ ~ps[i].default }
Defaulted(ps) ==
    { i \in 1..Len(ps) : /\ ps[i].kind \in {KEYWORD_ONLY, POSITIONAL_OR_KEYWORD}
                         /\ ps[i].default }
DefaultedNames(ps) == { ps[i].name : i \in Defaulted(ps) }
RequiredKeywordOnly(ps) ==
    { i \in 1..Len(ps) : ps[i].kind = KEYWORD_ONLY /\ ~ps[i].default }
HasKind(ps, k) == \E i \in 1..Len(ps) : ps[i].kind = k

\* ps without its i-th parameter
Remove(ps, i) == [j \in 1..(Len(ps) - 1) |-> IF j < i THEN ps[j] ELSE ps[j + 1]]

\* the five predicates of the specification
AllFive(ps) ==
    /\ (STAR \in Range(tokens)) <=> HasKind(ps, VAR_POSITIONAL)
    /\ (DOUBLESTAR \in Range(tokens)) <=> HasKind(ps, VAR_KEYWORD)
    /\ Cardinality(RequiredPositional(ps)) = positionalCount
    /\ Cardinality(Defaulted(ps)) = namedCount
    /\ namedNames \subseteq DefaultedNames(ps)

CalledOnCallable == pc = "called" /\ function.callable
CalledOnNonCallable == pc = "called" /\ ~function.callable
Succeeded == outcome = Returned(TRUE)
Failed == outcome \in {Returned(FALSE), Raised("SignatureMismatchError")}

----------------------------------------------------------------------------
(* C1 *)

\* C1, as claimed: match() on a value that is not callable raises
\* NotCallableError when raise_exception is true and returns False when it
\* is false, whatever the pattern.
C1_NotCallableError ==
    CalledOnNonCallable =>
        outcome = IF raise_exception THEN Raised("NotCallableError")
                                     ELSE Returned(FALSE)

\* C1, as amended: match() on a value that is not callable raises the
\* builtin ValueError (no SignatureMismatchError, no other kind) when
\* raise_exception is true and returns False when it is false, whatever the
\* pattern.
C1_ValueError ==
    CalledOnNonCallable =>
        /\ outcome = IF raise_exception THEN Raised("ValueError")
                                        ELSE Returned(FALSE)
        /\ outcome # Raised("SignatureMismatchError")

C1_Witness ==
    /\ CalledOnNonCallable
    /\ raise_exception
    /\ outcome.kind = "raise"
    /\ tokens # << >>

----------------------------------------------------------------------------
(* C2 *)

----------------------------------------------------------------------------
(* C3 *)

\* C3, as claimed: a pattern with exactly n '.' tokens matches exactly the
\* callables with exactly n required positional parameters, whatever
\* defaulted parameters they have.
C3_MatchesExactlyThose ==
    CalledOnCallable =>
        (Succeeded <=> Cardinality(RequiredPositional(parameters_of_call)) = positionalCount)

\* C3, as amended: a pattern with exactly n '.' tokens matches only
\* callables with exactly n required positional parameters; the predicate on
\* the number of positional arguments holds for exactly those callables, and
\* stays as it is when the defaulted parameters of the callable are removed.
C3_OnlyThose ==
    CalledOnCallable =>
        LET ps == parameters_of_call
            n == Cardinality(RequiredPositional(ps))
            bare == SelectSeq(ps, LAMBDA q : ~(q.kind \in {KEYWORD_ONLY, POSITIONAL_OR_KEYWORD}
                                               /\ q.default))
        IN  /\ Succeeded => n = positionalCount
            /\ prove_number_of_position_args(self, ps) <=> (n = positionalCount)
            /\ prove_number_of_position_args(self, bare)
                  <=> prove_number_of_position_args(self, ps)

C3_Witness ==
    /\ CalledOnCallable
    /\ Succeeded
    /\ positionalCount = 1
    /\ Defaulted(parameters_of_call) # {}

----------------------------------------------------------------------------
(* C4 *)

\* C4: match() succeeds only if the pattern contains '*' exactly when the
\* callable has a *args parameter and contains '**' exactly when it has a
\* **kwargs parameter, whatever the other tokens.
C4_VariadicSymmetry ==
    (CalledOnCallable /\ Succeeded) =>
        /\ (STAR \in Range(tokens)) <=> HasKind(parameters_of_call, VAR_POSITIONAL)
        /\ (DOUBLESTAR \in Range(tokens)) <=> HasKind(parameters_of_call, VAR_KEYWORD)

C4_Witness ==
    /\ CalledOnCallable
    /\ Succeeded
    /\ STAR \in Range(tokens)
    /\ DOUBLESTAR \notin Range(tokens)
    /\ HasKind(parameters_of_call, VAR_POSITIONAL)

----------------------------------------------------------------------------
(* C5 *)

\* C5: match() fails whenever a name of the pattern is not the name of a
\* defaulted parameter of the callable; a defaulted parameter whose name is
\* not in the pattern does not make the predicate on the names fail: with or
\* without it the predicate gives the same, so that the callable matches
\* exactly when the four other predicates hold and the callable without that
\* parameter passes the predicate on the names.
C5_NamedTokenRule ==
    CalledOnCallable =>
        LET ps == parameters_of_call
        IN  /\ ~(namedNames \subseteq DefaultedNames(ps)) => Failed
            /\ \A i \in Defaulted(ps) :
                 ps[i].name \notin namedNames =>
                   /\ prove_names_of_named_args(self, Remove(ps, i))
                         <=> prove_names_of_named_args(self, ps)
                   /\ Succeeded <=>
                        /\ prove_is_args(self, ps)
                        /\ prove_is_kwargs(self, ps)
                        /\ prove_number_of_position_args(self, ps)
                        /\ prove_number_of_named_args(self, ps)
                        /\ prove_names_of_named_args(self, Remove(ps, i))

C5_Witness ==
    /\ CalledOnCallable
    /\ Succeeded
    /\ \E i \in Defaulted(parameters_of_call) :
         parameters_of_call[i].name \notin namedNames

----------------------------------------------------------------------------
(* C6 *)

\* a call with the function and the flag of the first call gives what the
\* first call gave
SameAsFirst ==
    ( /\ pc = "called"
      /\ first # NoOutcome
      /\ first.function = function
      /\ first.raise_exception = raise_exception ) => outcome = first.outcome

\* C6: no call of match(), whatever it is given and however it ends, changes
\* the fields of the matcher, which stay those the construction computed,
\* and a call with the function and the flag of the first call gives what
\* the first call gave.
C6_MatchLeavesMatcher ==
    /\ [][self' = self]_vars
    /\ [](self \in SignatureMatcher(self.expected_signature))
    /\ []SameAsFirst

C6_Witness ==
    /\ pc = "called"
    /\ calls >= 2
    /\ first # NoOutcome
    /\ first.function = function
    /\ first.raise_exception = raise_exception
    /\ outcome.kind = "raise"
    /\ Len(self.names_of_named_args) > 0

----------------------------------------------------------------------------
(* C7 *)

\* the pattern without its malformed tokens
WellFormed(args) == SelectSeq(args, LAMBDA x : x \notin MalformedTokens)

\* C7: a pattern with malformed tokens ('', '***', '2c') constructs a
\* matcher whose is_args, is_kwargs, number_of_position_args,
\* number_of_named_args and names are those of the pattern without these
\* tokens, and match() gives on every candidate what the matcher of the
\* pattern without them gives.
C7_MalformedTokensIgnored ==
    \E clean \in SignatureMatcher(WellFormed(tokens)) :
        /\ clean.is_args = self.is_args
        /\ clean.is_kwargs = self.is_kwargs
        /\ clean.number_of_position_args = self.number_of_position_args
        /\ clean.number_of_named_args = self.number_of_named_args
        /\ clean.names_of_named_args = self.names_of_named_args
        /\ pc = "called" => outcome = match(clean, function, raise_exception).outcome

C7_Witness ==
    /\ CalledOnCallable
    /\ Succeeded
    /\ Range(tokens) \cap MalformedTokens # {}
    /\ WellFormed(tokens) # << >>

----------------------------------------------------------------------------
(* C8 *)

\* C8: for a pattern that is a name twice, number_of_named_args is 2 and the
\* names are that one name; match() succeeds on a callable with exactly two
\* defaulted parameters one of which has the name, and fails on a callable
\* whose only defaulted parameter has the name.
C8_RepeatedName ==
    \A x \in NameTokens :
        tokens = <<x, x>> =>
            /\ self.number_of_named_args = 2
            /\ self.names_of_named_args = <<x>>
            /\ CalledOnCallable =>
                 LET ps == parameters_of_call
                 IN  /\ ( /\ Len(ps) = 2
                          /\ Cardinality(Defaulted(ps)) = 2
                          /\ x \in DefaultedNames(ps) ) => Succeeded
                     /\ DefaultedNames(ps) = {x} => Failed

C8_Witness ==
    /\ tokens = << <<"c">>, <<"c">> >>
    /\ CalledOnCallable
    /\ Succeeded
    /\ DefaultedNames(parameters_of_call) = { <<"c">>, <<"a">> }

----------------------------------------------------------------------------
(* C9 *)

\* C9: when the named tokens of the pattern are pairwise distinct, the
\* defaulted parameters of a callable that matches have exactly the names
\* of the pattern; a defaulted parameter the pattern does not name goes
\* with a match only when the pattern repeats a name.
C9_DistinctNamesExact ==
    (CalledOnCallable /\ Succeeded) =>
        /\ namedCount = Cardinality(namedNames)
             => DefaultedNames(parameters_of_call) = namedNames
        /\ DefaultedNames(parameters_of_call) # namedNames
             => namedCount > Cardinality(namedNames)

C9_Witness ==
    /\ CalledOnCallable
    /\ Succeeded
    /\ namedCount = 2
    /\ Cardinality(namedNames) = 2

----------------------------------------------------------------------------
(* C10 *)

\* C10: match() gives on a callable what it gives on the callable without
\* its keyword-only parameters that have no default, and the empty pattern
\* matches a callable whose only parameter is such a parameter.
C10_RequiredKeywordOnlyIgnored ==
    CalledOnCallable =>
        LET ps == parameters_of_call
            without == SelectSeq(ps, LAMBDA q : ~(q.kind = KEYWORD_ONLY /\ ~q.default))
        IN  /\ outcome = match(self, Func(without), raise_exception).outcome
            /\ ( /\ tokens = << >>
                 /\ Len(ps) = 1
                 /\ RequiredKeywordOnly(ps) = {1} ) => Succeeded

C10_Witness ==
    /\ CalledOnCallable
    /\ tokens = << >>
    /\ Len(parameters_of_call) = 1
    /\ RequiredKeywordOnly(parameters_of_call) = {1}
    /\ Succeeded
====
